---- MODULE Spec2Model ----
(***************************************************************************)
(* Twotter: the read-only query aggregation layer (src/db/queries.ts) and  *)
(* its HTTP routes (src/routes/users.ts) over a PostgreSQL store whose     *)
(* schema is schema.sql.  Every `await pool.query(...)` of a handler is    *)
(* one atomic step on the store; statements of other connections (the     *)
(* seed scripts) may be interleaved between two steps of a request.        *)
(***************************************************************************)
EXTENDS Bags, FiniteSets, Integers, Sequences, TLC

VARIABLES users, posts, follows, likes, writes, req, resp, prev, dirty

store == <<users, posts, follows, likes>>
vars == <<users, posts, follows, likes, writes, req, resp, prev, dirty>>

NULL == "null"

(***************************************************************************)
(* Bounds of the model.                                                    *)
(***************************************************************************)
\* number of statements a concurrent writer connection commits in a run
MaxWrites == 1
\* the same while only the user listing is served
MaxListWrites == 2
\* largest explicit ?page= value a client sends
MaxPage == 2
\* largest small explicit ?limit= value a client sends (besides 100, 101)
MaxSmallLimit == 2

(***************************************************************************)
(* Program constants (routes/users.ts).                                    *)
(***************************************************************************)
DefaultPage == 1
DefaultLimit == 20
MaxLimit == 100

(***************************************************************************)
(* The development fixture written by seed(): 4 users, 9 follow edges,     *)
(* 7 posts + 1 reply, 12 likes.  Times are milliseconds; the clock reading *)
(* `now` of the seed run is chosen so that oneWeekAgo is 0.                *)
(***************************************************************************)
Hour == 60 * 60 * 1000
now == 7 * 24 * Hour
oneHourAgo == now - Hour
twoHoursAgo == now - 2 * Hour
threeDaysAgo == now - 3 * 24 * Hour
oneWeekAgo == now - 7 * 24 * Hour
\* clock reading of a statement issued after the seed run
later == now + Hour

UserRow(i, f, u, e) == [id |-> i, full_name |-> f, username |-> u, email |-> e]
PostRow(i, a, t, at, r) ==
    [id |-> i, author_id |-> a, text |-> t, posted_at |-> at, replying_to |-> r]
FollowRow(a, b) == [follower_id |-> a, followed_id |-> b]
LikeRow(p, u) == [post_id |-> p, user_id |-> u]

SeedUsers ==
    { UserRow("alice", "Alice Anderson", "alice", "alice@example.com"),
      UserRow("bob", "Bob Brown", "bob", "bob@example.com"),
      UserRow("charlie", "Charlie Chen", "charlie", "charlie@example.com"),
      UserRow("diana", "Diana Davis", "diana", "diana@example.com") }

SeedFollows ==
    { FollowRow("alice", "bob"), FollowRow("alice", "charlie"),
      FollowRow("bob", "alice"), FollowRow("bob", "diana"),
      FollowRow("charlie", "alice"), FollowRow("charlie", "bob"),
      FollowRow("diana", "alice"), FollowRow("diana", "bob"),
      FollowRow("diana", "charlie") }

SeedPosts ==
    { PostRow("post1", "alice", "Just joined Twotter! This is my first post.",
              oneWeekAgo, NULL),
      PostRow("post2", "bob", "Working on a new project today. Exciting stuff!",
              threeDaysAgo, NULL),
      PostRow("post3", "alice", "Does anyone else think TypeScript is amazing?",
              twoHoursAgo, NULL),
      PostRow("post4", "charlie", "Had a great coffee this morning",
              oneHourAgo, NULL),
      PostRow("post5", "diana",
              "Debugging is like being a detective in a crime movie where you are also the murderer.",
              now, NULL),
      PostRow("post6", "bob",
              "The best way to predict the future is to implement it.", now, NULL),
      PostRow("post7", "alice", "Code never lies, comments sometimes do.",
              now, NULL),
      PostRow("reply1", "bob", "Welcome to Twotter, Alice!",
              oneWeekAgo + 30 * 60 * 1000, "post1") }

SeedLikes ==
    { LikeRow("post1", "bob"), LikeRow("post1", "charlie"), LikeRow("post1", "diana"),
      LikeRow("post2", "alice"), LikeRow("post2", "diana"),
      LikeRow("post3", "bob"), LikeRow("post3", "charlie"),
      LikeRow("post3", "diana"), LikeRow("post3", "alice"),
      LikeRow("post4", "alice"), LikeRow("post4", "bob"),
      LikeRow("post5", "charlie") }

(***************************************************************************)
(* Rows the integration seed (seedIntegration) inserts one statement at a  *)
(* time, without a transaction, possibly while requests are served.        *)
(***************************************************************************)
NewUser == UserRow("u1", "James Smith", "jamessmith1", "jamessmith1@example.com")
NewPostIds == {"post8"}
NewPostText == "Hello Twotter"
InsertTimes == {later}

\* ORDER BY username: the store's collation of the usernames of the model
Collation == <<"alice", "bob", "charlie", "diana", "jamessmith1">>
Rank(name) == CHOOSE i \in 1..Len(Collation) : Collation[i] = name

Ids(rows) == {r.id : r \in rows}

\* the constraints of schema.sql: keys, foreign keys, no self-follow
SchemaOK ==
    /\ \A u, v \in users : u.id = v.id => u = v
    /\ \A u, v \in users : u.username = v.username => u = v
    /\ \A p, q \in posts : p.id = q.id => p = q
    /\ \A p \in posts : /\ p.author_id \in Ids(users)
                        /\ p.replying_to \in Ids(posts) \cup {NULL}
    /\ \A f \in follows : /\ f.follower_id \in Ids(users)
                          /\ f.followed_id \in Ids(users)
                          /\ f.follower_id # f.followed_id
    /\ \A l \in likes : l.post_id \in Ids(posts) /\ l.user_id \in Ids(users)


(***************************************************************************)
(* Values.  A query-string parameter is <<>> when absent and <<n>> when    *)
(* it is the decimal text of n.  A JavaScript number is a record so that   *)
(* NaN is a value of the same type as the integers.                        *)
(***************************************************************************)
Unset == <<>>
Given(n) == <<n>>
Num(n) == [nan |-> FALSE, val |-> n]
NaN == [nan |-> TRUE, val |-> 0]

\* parseInt(req.query.x as string): undefined parses to NaN
parseInt(q) == IF q = Unset THEN NaN ELSE Num(q[1])

\* x || d on numbers: NaN and 0 are falsy
OrDefault(x, d) == IF x.nan \/ x.val = 0 THEN d ELSE x.val

\* page < 1 || limit < 1 || limit > 100
InvalidPagination(page, limit) == page < 1 \/ limit < 1 \/ limit > MaxLimit

\* slip: pages counted from 0
Offset_pageTimesLimit(page, limit) == page * limit

\* const offset = (page - 1) * limit
Offset(page, limit) == (page - 1) * limit

\* Date.prototype.toISOString and its inverse new Date(s).getTime(): the
\* ISO-8601 text of a millisecond instant, kept distinct from the instant
toISOString(t) == <<"ISO-8601", t>>
getTime(s) == s[2]

\* the multiset of F(r) over the rows r of S (a result list whose order
\* the store leaves unspecified)
BagOf(S, F(_)) ==
    [v \in {F(r) : r \in S} |-> Cardinality({r \in S : F(r) = v})]

Min(a, b) == IF a < b THEN a ELSE b

(***************************************************************************)
(* The statements of queries.ts, as functions of the store.                *)
(***************************************************************************)
RECURSIVE SortByUsername(_)
SortByUsername(S) ==
    IF S = {} THEN <<>>
    ELSE LET u == CHOOSE x \in S :
                     \A y \in S : Rank(x.username) <= Rank(y.username)
         IN <<u>> \o SortByUsername(S \ {u})

\* slip: ORDER BY username DESC
SelectUsers_descending ==
    LET s == SortByUsername(users) IN [k \in 1..Len(s) |-> s[Len(s) + 1 - k]]

\* slip: the last row of the listing is lost
SelectUsers_lastDropped ==
    LET s == SortByUsername(users) IN SubSeq(s, 1, Len(s) - 1)

\* SELECT id, full_name, username, email FROM users ORDER BY username
SelectUsers == SortByUsername(users)

\* SELECT follower_id, followed_id FROM follows
\*   WHERE follower_id = ANY($1) OR followed_id = ANY($1)
SelectFollowsOfAny(userIds) ==
    {f \in follows : f.follower_id \in userIds \/ f.followed_id \in userIds}

\* SELECT id, full_name, username, email FROM users WHERE id = $1
SelectUserById(id) ==
    LET found == {u \in users : u.id = id}
    IN IF found = {} THEN <<>> ELSE <<CHOOSE u \in found : TRUE>>

\* slip: the outgoing edges selected by the wrong column
SelectFollowed_byFollowedId(id) ==
    {[followed_id |-> f.follower_id] : f \in {g \in follows : g.followed_id = id}}

\* SELECT followed_id FROM follows WHERE follower_id = $1
SelectFollowed(id) ==
    {[followed_id |-> f.followed_id] : f \in {g \in follows : g.follower_id = id}}

\* slip: the followers selected by the follower column
SelectFollowers_byFollowerId(id) ==
    {[follower_id |-> f.followed_id] : f \in {g \in follows : g.follower_id = id}}

\* SELECT follower_id FROM follows WHERE followed_id = $1
SelectFollowers(id) ==
    {[follower_id |-> f.follower_id] : f \in {g \in follows : g.followed_id = id}}

\* slip: ORDER BY posted_at ASC
RECURSIVE DescOrders_ascending(_)
DescOrders_ascending(S) ==
    IF S = {} THEN {<<>>}
    ELSE LET top == {r \in S : \A q \in S : q.posted_at >= r.posted_at}
         IN UNION {{<<r>> \o t : t \in DescOrders_ascending(S \ {r})} : r \in top}

\* every order ORDER BY posted_at DESC may produce: rows with equal
\* posted_at come in an order the store chooses per statement
RECURSIVE DescOrders(_)
DescOrders(S) ==
    IF S = {} THEN {<<>>}
    ELSE LET top == {r \in S : \A q \in S : q.posted_at <= r.posted_at}
         IN UNION {{<<r>> \o t : t \in DescOrders(S \ {r})} : r \in top}

\* slip: OFFSET left out
LimitOffset_withoutOffset(rows, limit, offset) ==
    SubSeq(rows, 1, Min(limit, Len(rows)))

\* LIMIT $2 OFFSET $3 on an ordered result
LimitOffset(rows, limit, offset) ==
    SubSeq(rows, offset + 1, Min(offset + limit, Len(rows)))

\* the columns id, author_id, text, posted_at, replying_to of a result row
PostColumns(r) == PostRow(r.id, r.author_id, r.text, r.posted_at, r.replying_to)

\* slip: the WHERE clause left out
PostsOfAuthor_anyAuthor(userId) == posts

\* FROM posts WHERE author_id = $1
PostsOfAuthor(userId) == {p \in posts : p.author_id = userId}

\* slip: the join taken on the follower column
FeedJoin_onFollower(userId) ==
    {p @@ f : <<p, f>> \in
        {pf \in posts \X follows : /\ pf[1].author_id = pf[2].follower_id
                                   /\ pf[2].follower_id = userId}}

\* slip: the user's own posts added to the feed
FeedJoin_withOwnPosts(userId) ==
    {p @@ FollowRow(userId, p.author_id) :
        p \in {q \in posts : \/ q.author_id = userId
                             \/ FollowRow(userId, q.author_id) \in follows}}

\* FROM posts p INNER JOIN follows f ON p.author_id = f.followed_id
\*   WHERE f.follower_id = $1
FeedJoin(userId) ==
    {p @@ f : <<p, f>> \in
        {pf \in posts \X follows : /\ pf[1].author_id = pf[2].followed_id
                                   /\ pf[2].follower_id = userId}}

\* the pages the statement of getUserPosts / getUserFeed may return
Pages(matching, limit, offset) ==
    {[i \in 1..Len(pg) |-> PostColumns(pg[i])] :
        pg \in {LimitOffset(o, limit, offset) : o \in DescOrders(matching)}}

\* slip: the replies looked for among the posts of the page only
SelectReplies_withinPage(postIds) ==
    {[replying_to |-> p.replying_to, id |-> p.id] :
        p \in {q \in posts : q.replying_to \in postIds /\ q.id \in postIds}}

\* SELECT replying_to, id FROM posts WHERE replying_to = ANY($1)
SelectReplies(postIds) ==
    {[replying_to |-> p.replying_to, id |-> p.id] :
        p \in {q \in posts : q.replying_to \in postIds}}

\* SELECT post_id, user_id FROM likes WHERE post_id = ANY($1)
SelectLikes(postIds) == {l \in likes : l.post_id \in postIds}

(***************************************************************************)
(* The in-memory merges of queries.ts.                                     *)
(***************************************************************************)
\* followsMap of getAllUsers: an entry for every fetched user, and a push
\* of followed_id for every edge whose follower has an entry
followsMap(userRows, followRows) ==
    [i \in {userRows[k].id : k \in 1..Len(userRows)} |->
        BagOf({f \in followRows : f.follower_id = i}, LAMBDA f : f.followed_id)]

\* slip: followed_by grouped by the follower column
followedByMap_byFollower(userRows, followRows) ==
    [i \in {userRows[k].id : k \in 1..Len(userRows)} |->
        BagOf({f \in followRows : f.follower_id = i}, LAMBDA f : f.follower_id)]

followedByMap(userRows, followRows) ==
    [i \in {userRows[k].id : k \in 1..Len(userRows)} |->
        BagOf({f \in followRows : f.followed_id = i}, LAMBDA f : f.follower_id)]

EnrichedUser(u, fl, fb) ==
    [id |-> u.id, full_name |-> u.full_name, username |-> u.username,
     email |-> u.email, follows |-> fl, followed_by |-> fb]

\* users.map(...) at the end of getAllUsers
MergeUsers(userRows, followRows) ==
    [k \in 1..Len(userRows) |->
        EnrichedUser(userRows[k],
                     followsMap(userRows, followRows)[userRows[k].id],
                     followedByMap(userRows, followRows)[userRows[k].id])]

\* the object getUserById returns for a found user
MergeUser(u, followRows, followedByRows) ==
    EnrichedUser(u, BagOf(followRows, LAMBDA f : f.followed_id),
                    BagOf(followedByRows, LAMBDA f : f.follower_id))

\* slip: the reply rows not grouped by their parent
repliesMap_ungrouped(postRows, replyRows) ==
    [i \in {postRows[k].id : k \in 1..Len(postRows)} |->
        BagOf({r \in replyRows : r.replying_to # NULL}, LAMBDA r : r.id)]

repliesMap(postRows, replyRows) ==
    [i \in {postRows[k].id : k \in 1..Len(postRows)} |->
        BagOf({r \in replyRows : r.replying_to # NULL /\ r.replying_to = i},
              LAMBDA r : r.id)]

\* slip: the like rows grouped by the wrong column
likesMap_byUser(postRows, likeRows) ==
    [i \in {postRows[k].id : k \in 1..Len(postRows)} |->
        BagOf({l \in likeRows : l.user_id = i}, LAMBDA l : l.post_id)]

likesMap(postRows, likeRows) ==
    [i \in {postRows[k].id : k \in 1..Len(postRows)} |->
        BagOf({l \in likeRows : l.post_id = i}, LAMBDA l : l.user_id)]

\* slip: the derived lists attached only to a post that has a reply or a like
EnrichedPost_listsIfAny(p, rs, ls) ==
    IF rs = EmptyBag /\ ls = EmptyBag
    THEN [id |-> p.id, author_id |-> p.author_id, text |-> p.text,
          posted_at |-> toISOString(p.posted_at), replying_to |-> p.replying_to]
    ELSE [id |-> p.id, author_id |-> p.author_id, text |-> p.text,
          posted_at |-> toISOString(p.posted_at), replying_to |-> p.replying_to,
          replies |-> rs, liked_by |-> ls]

\* { ...post, posted_at: post.posted_at.toISOString(), replies, liked_by }
EnrichedPost(p, rs, ls) ==
    [id |-> p.id, author_id |-> p.author_id, text |-> p.text,
     posted_at |-> toISOString(p.posted_at), replying_to |-> p.replying_to,
     replies |-> rs, liked_by |-> ls]

\* slip: the merged posts collected in reverse
MergePosts_reversed(postRows, replyRows, likeRows) ==
    [k \in 1..Len(postRows) |->
        EnrichedPost(postRows[Len(postRows) + 1 - k],
                     repliesMap(postRows, replyRows)[postRows[Len(postRows) + 1 - k].id],
                     likesMap(postRows, likeRows)[postRows[Len(postRows) + 1 - k].id])]

\* posts.map(...) at the end of enrichPosts
MergePosts(postRows, replyRows, likeRows) ==
    [k \in 1..Len(postRows) |->
        EnrichedPost(postRows[k],
                     repliesMap(postRows, replyRows)[postRows[k].id],
                     likesMap(postRows, likeRows)[postRows[k].id])]


(***************************************************************************)
(* State of the one request in flight and of its response.  trips counts   *)
(* the statements the request has issued, opTrips those of the query       *)
(* function it is in (getUserById, then getUserPosts / getUserFeed with    *)
(* enrichPosts); matched records the rows the page statement selected      *)
(* from, before ORDER BY / LIMIT / OFFSET.                                 *)
(***************************************************************************)
NoReq ==
    [op |-> "none", id |-> NULL, page |-> Unset, limit |-> Unset,
     pageNum |-> 0, limitNum |-> 0, pc |-> "idle", trips |-> 0,
     opTrips |-> 0, failed |-> FALSE, userRows |-> <<>>, followRows |-> {},
     followedByRows |-> {}, matched |-> {}, postRows |-> <<>>,
     replyRows |-> {}]

NoResp == [status |-> 0, kind |-> "none", error |-> "", users |-> <<>>, posts |-> <<>>]

NoPrev == [req |-> NoReq, resp |-> NoResp]

\* res.json(users) / res.json(user) / res.json(posts) / res.status(c).json({error})
UsersResponse(list) == [NoResp EXCEPT !.status = 200, !.kind = "users", !.users = list]
UserResponse(user) == [NoResp EXCEPT !.status = 200, !.kind = "user", !.users = <<user>>]
PostsResponse(list) == [NoResp EXCEPT !.status = 200, !.kind = "posts", !.posts = list]
ErrorResponse(code, msg) == [NoResp EXCEPT !.status = code, !.kind = "error", !.error = msg]

\* slip: an absent user is answered like a user without posts
UserNotFound_asEmptyList == PostsResponse(<<>>)

\* if (!user) return res.status(404).json({ error: 'User not found' })
UserNotFound == ErrorResponse(404, "User not found")

\* slip: a failure caught inside enrichPosts, the page returned as far as
\* it was enriched
OnQueryError_partialPage(r) ==
    IF r.postRows # <<>>
    THEN [NoResp EXCEPT !.status = 200, !.kind = "posts",
                        !.posts = [k \in 1..Len(r.postRows) |->
                                      [id |-> r.postRows[k].id, replies |-> EmptyBag,
                                       liked_by |-> EmptyBag]]]
    ELSE ErrorResponse(500, "Internal server error")

\* the catch block of every route: the rejected query becomes a 500
OnQueryError(r) == ErrorResponse(500, "Internal server error")

Paged == {"GetUserPosts", "GetUserFeed"}
\* the ids clients ask for: two fixture users and the id of the new user
RequestIds == {"alice", "charlie", NewUser.id}
PageParams == {Unset} \cup {Given(n) : n \in -1..MaxPage}
SmallLimits == {Given(n) : n \in 1..MaxSmallLimit}
LimitParams == {Unset} \cup {Given(n) : n \in {-1, 0, MaxLimit, MaxLimit + 1}}
\* the query strings clients send: any page with a small limit or none,
\* and any limit on its own
QueryStrings ==
    {<<page, limit>> : page \in PageParams, limit \in SmallLimits \cup {Unset}}
        \cup {<<Unset, limit>> : limit \in LimitParams}
\* the page after the last one a client asks for first (with its limit)
NextQueryStrings == {<<Given(MaxPage + 1), limit>> : limit \in SmallLimits}

\* a new exchange starts on an idle connection, or follows up a finished one
Idle(keep) == IF keep THEN req.pc = "done" ELSE req.pc = "idle"

\* a client may hold on to the previous exchange when the next request is
\* the next page of the same listing, the profile of a listed user, the
\* profile of a user the profile just received names, or the same request
\* (one without query string) once more
FollowUp(op, id, page, limit) ==
    /\ req.pc = "done"
    /\ resp.status = 200
    /\ \/ /\ req.op \in Paged
          /\ req.page = Given(req.pageNum) /\ req.limit = Given(req.limitNum)
          /\ op = req.op /\ id = req.id /\ limit = req.limit
          /\ req.pageNum <= MaxPage
          /\ page = Given(req.pageNum + 1)
       \/ /\ req.op = "ListUsers"
          /\ op = "GetUser"
       \/ /\ req.op = "GetUser"
          /\ op = "GetUser"
          /\ \/ BagIn(id, resp.users[1].follows)
             \/ BagIn(id, resp.users[1].followed_by)
       \/ /\ op = req.op /\ id = req.id
          /\ req.page = Unset /\ req.limit = Unset
          /\ page = Unset /\ limit = Unset

Begin(r, keep) ==
    /\ req' = r
    /\ prev' = IF keep THEN [req |-> req, resp |-> resp] ELSE NoPrev
    /\ dirty' = IF keep THEN dirty ELSE FALSE
    /\ UNCHANGED <<store, writes>>

Step(r) == req' = r /\ UNCHANGED <<store, writes, resp, prev, dirty>>

Respond(r, out) ==
    /\ req' = [r EXCEPT !.pc = "done"]
    /\ resp' = out
    /\ UNCHANGED <<store, writes, prev, dirty>>

(***************************************************************************)
(* routes/users.ts: the part of each handler before its first await.       *)
(***************************************************************************)
\* router.get('/')
RouteUsers ==
    /\ req.pc \in {"idle", "done"}
    /\ \E keep \in BOOLEAN :
        /\ Idle(keep)
        /\ keep => FollowUp("ListUsers", NULL, Unset, Unset)
        /\ resp' = NoResp
        /\ Begin([NoReq EXCEPT !.op = "ListUsers", !.pc = "users"], keep)

\* router.get('/:id')
RouteUser ==
    /\ req.pc \in {"idle", "done"}
    /\ \E id \in RequestIds, keep \in BOOLEAN :
        /\ Idle(keep)
        /\ keep => FollowUp("GetUser", id, Unset, Unset)
        /\ resp' = NoResp
        /\ Begin([NoReq EXCEPT !.op = "GetUser", !.id = id, !.pc = "user"], keep)

\* the shared opening of router.get('/:id/posts') and router.get('/:id/feed')
RoutePaged(op) ==
    /\ req.pc \in {"idle", "done"}
    /\ \E id \in RequestIds, q \in QueryStrings \cup NextQueryStrings,
          keep \in BOOLEAN :
        LET page == q[1]
            limit == q[2]
            p == OrDefault(parseInt(page), DefaultPage)
            l == OrDefault(parseInt(limit), DefaultLimit)
            r == [NoReq EXCEPT !.op = op, !.id = id, !.page = page,
                               !.limit = limit, !.pageNum = p, !.limitNum = l]
        IN /\ Idle(keep)
           /\ keep => FollowUp(op, id, page, limit)
           /\ q \in NextQueryStrings => keep
           /\ IF InvalidPagination(p, l)
              THEN /\ resp' = ErrorResponse(400, "Invalid pagination parameters")
                   /\ Begin([r EXCEPT !.pc = "done"], keep)
              ELSE /\ resp' = NoResp
                   /\ Begin([r EXCEPT !.pc = "user"], keep)

RouteUserPosts == RoutePaged("GetUserPosts")
RouteUserFeed == RoutePaged("GetUserFeed")

(***************************************************************************)
(* queries.ts: one action per awaited statement, with the code that runs   *)
(* until the next await (or until the response is sent).                   *)
(***************************************************************************)
getAllUsers_users ==
    /\ req.pc = "users"
    /\ LET rows == SelectUsers
           r == [req EXCEPT !.trips = @ + 1, !.opTrips = @ + 1, !.userRows = rows]
       IN IF Len(rows) = 0
          THEN Respond(r, UsersResponse(<<>>))
          ELSE /\ Step([r EXCEPT !.pc = "userFollows"])

getAllUsers_follows ==
    /\ req.pc = "userFollows"
    /\ LET userIds == {req.userRows[k].id : k \in 1..Len(req.userRows)}
           rows == SelectFollowsOfAny(userIds)
           r == [req EXCEPT !.trips = @ + 1, !.opTrips = @ + 1, !.followRows = rows]
       IN Respond(r, UsersResponse(MergeUsers(req.userRows, rows)))

getUserById_user ==
    /\ req.pc = "user"
    /\ LET rows == SelectUserById(req.id)
           r == [req EXCEPT !.trips = @ + 1, !.opTrips = @ + 1, !.userRows = rows]
       IN IF Len(rows) = 0
          THEN Respond(r, UserNotFound)
          ELSE Step([r EXCEPT !.pc = "follows"])

getUserById_follows ==
    /\ req.pc = "follows"
    /\ Step([req EXCEPT !.trips = @ + 1, !.opTrips = @ + 1, !.followRows = SelectFollowed(req.id),
                        !.pc = "followedBy"])

getUserById_followedBy ==
    /\ req.pc = "followedBy"
    /\ LET rows == SelectFollowers(req.id)
           r == [req EXCEPT !.trips = @ + 1, !.opTrips = @ + 1, !.followedByRows = rows]
       IN IF req.op = "GetUser"
          THEN Respond(r, UserResponse(MergeUser(req.userRows[1], req.followRows, rows)))
          ELSE Step([r EXCEPT !.pc = "posts", !.opTrips = 0])

\* slip: enrichPosts without its test for an empty page
AfterPage_noShortCircuit(pg, matching) ==
    Step([req EXCEPT !.trips = @ + 1, !.opTrips = @ + 1, !.postRows = pg,
                     !.matched = {[id |-> p.id, posted_at |-> p.posted_at] :
                                     p \in matching},
                     !.pc = "replies"])

\* what follows the page statement: enrichPosts returns [] for an empty page
AfterPage(pg, matching) ==
    LET r == [req EXCEPT !.trips = @ + 1, !.opTrips = @ + 1, !.postRows = pg,
                         !.matched = {[id |-> p.id, posted_at |-> p.posted_at] :
                                         p \in matching}]
    IN IF Len(pg) = 0
       THEN Respond(r, PostsResponse(<<>>))
       ELSE Step([r EXCEPT !.pc = "replies"])

getUserPosts ==
    /\ req.pc = "posts" /\ req.op = "GetUserPosts"
    /\ \E pg \in Pages(PostsOfAuthor(req.id), req.limitNum,
                       Offset(req.pageNum, req.limitNum)) :
            AfterPage(pg, PostsOfAuthor(req.id))

getUserFeed ==
    /\ req.pc = "posts" /\ req.op = "GetUserFeed"
    /\ \E pg \in Pages(FeedJoin(req.id), req.limitNum,
                       Offset(req.pageNum, req.limitNum)) :
            AfterPage(pg, FeedJoin(req.id))

enrichPosts_replies ==
    /\ req.pc = "replies"
    /\ LET postIds == {req.postRows[k].id : k \in 1..Len(req.postRows)}
       IN Step([req EXCEPT !.trips = @ + 1, !.opTrips = @ + 1, !.replyRows = SelectReplies(postIds),
                           !.pc = "likes"])

\* slip: the likes fetched with one statement per post of the page
enrichPosts_likes_perPost ==
    /\ req.pc = "likes"
    /\ LET postIds == {req.postRows[k].id : k \in 1..Len(req.postRows)}
           r == [req EXCEPT !.trips = @ + Len(req.postRows),
                            !.opTrips = @ + Len(req.postRows)]
       IN Respond(r, PostsResponse(MergePosts(req.postRows, req.replyRows,
                                              SelectLikes(postIds))))

enrichPosts_likes ==
    /\ req.pc = "likes"
    /\ LET postIds == {req.postRows[k].id : k \in 1..Len(req.postRows)}
           r == [req EXCEPT !.trips = @ + 1, !.opTrips = @ + 1]
       IN Respond(r, PostsResponse(MergePosts(req.postRows, req.replyRows,
                                              SelectLikes(postIds))))

\* the response has been sent and the client is done with the exchange
Finish ==
    /\ req.pc = "done"
    /\ req' = NoReq /\ resp' = NoResp /\ prev' = NoPrev /\ dirty' = FALSE
    /\ UNCHANGED <<store, writes>>

\* the statement the request is waiting on is rejected (store unavailable,
\* query failed): the exception unwinds to the route's catch block, the
\* locals of the query functions are gone
QueryFails ==
    /\ req.pc \notin {"idle", "done"}
    /\ LET r == [req EXCEPT !.trips = @ + 1, !.opTrips = @ + 1, !.failed = TRUE]
           unwound == [r EXCEPT !.userRows = <<>>, !.followRows = {},
                                !.followedByRows = {}, !.matched = {},
                                !.postRows = <<>>, !.replyRows = {}]
       IN Respond(unwound, OnQueryError(r))

(***************************************************************************)
(* Statements of a concurrent writer connection (seedIntegration runs its  *)
(* statements outside any transaction).  Cascades are those of schema.sql. *)
(***************************************************************************)
WriteWithin(max) ==
    /\ writes < max
    /\ writes' = writes + 1
    /\ dirty' = TRUE
    /\ UNCHANGED <<req, resp, prev>>

Write == WriteWithin(MaxWrites)

\* DELETE FROM likes
DeleteLikes ==
    /\ Write
    /\ likes # {}
    /\ likes' = {}
    /\ UNCHANGED <<users, posts, follows>>

\* DELETE FROM follows
DeleteFollowsStmt ==
    /\ follows # {}
    /\ follows' = {}
    /\ UNCHANGED <<users, posts, likes>>

DeleteFollows == Write /\ DeleteFollowsStmt

\* DELETE FROM posts (likes.post_id ON DELETE CASCADE)
DeletePosts ==
    /\ Write
    /\ posts # {}
    /\ posts' = {}
    /\ likes' = {}
    /\ UNCHANGED <<users, follows>>

\* DELETE FROM users (author_id, follower_id, followed_id, user_id cascade)
DeleteUsersStmt ==
    /\ users # {}
    /\ users' = {} /\ posts' = {} /\ follows' = {} /\ likes' = {}

DeleteUsers == Write /\ DeleteUsersStmt

\* INSERT INTO users (id, full_name, username, email) VALUES ($1, $2, $3, $4)
InsertUserStmt ==
    /\ NewUser.id \notin Ids(users)
    /\ \A u \in users : u.username # NewUser.username /\ u.email # NewUser.email
    /\ users' = users \cup {NewUser}
    /\ UNCHANGED <<posts, follows, likes>>

InsertUser == Write /\ InsertUserStmt

\* INSERT INTO follows (follower_id, followed_id) VALUES ($1, $2)
InsertFollowStmt ==
    /\ \E a, b \in Ids(users) :
        /\ a # b
        /\ FollowRow(a, b) \notin follows
        /\ follows' = follows \cup {FollowRow(a, b)}
    /\ UNCHANGED <<users, posts, likes>>

InsertFollow == Write /\ InsertFollowStmt

\* INSERT INTO posts (id, author_id, text, posted_at) VALUES ($1, $2, $3, $4)
InsertPost ==
    /\ Write
    /\ \E i \in NewPostIds \ Ids(posts), a \in Ids(users), t \in InsertTimes :
        posts' = posts \cup {PostRow(i, a, NewPostText, t, NULL)}
    /\ UNCHANGED <<users, follows, likes>>

(***************************************************************************)
(* The database after seed() holds the development fixture.                *)
(***************************************************************************)
Init ==
    /\ users = SeedUsers /\ posts = SeedPosts /\ follows = SeedFollows
    /\ likes = SeedLikes
    /\ writes = 0
    /\ req = NoReq
    /\ resp = NoResp
    /\ prev = NoPrev
    /\ dirty = FALSE

Next ==
    \/ RouteUsers
    \/ RouteUser
    \/ RouteUserPosts
    \/ RouteUserFeed
    \/ getAllUsers_users
    \/ getAllUsers_follows
    \/ getUserById_user
    \/ getUserById_follows
    \/ getUserById_followedBy
    \/ getUserPosts
    \/ getUserFeed
    \/ enrichPosts_replies
    \/ enrichPosts_likes
    \/ QueryFails
    \/ Finish
    \/ DeleteLikes
    \/ DeleteFollows
    \/ DeletePosts
    \/ DeleteUsers
    \/ InsertUser
    \/ InsertFollow
    \/ InsertPost

Spec == Init /\ [][Next]_vars

(***************************************************************************)
(* The user listing alone, with a writer that commits up to MaxListWrites  *)
(* statements on the users and follows tables.                             *)
(***************************************************************************)
InsertUserDuringList == WriteWithin(MaxListWrites) /\ InsertUserStmt
InsertFollowDuringList == WriteWithin(MaxListWrites) /\ InsertFollowStmt
DeleteFollowsDuringList == WriteWithin(MaxListWrites) /\ DeleteFollowsStmt
DeleteUsersDuringList == WriteWithin(MaxListWrites) /\ DeleteUsersStmt

NextListUsers ==
    \/ RouteUsers
    \/ getAllUsers_users
    \/ getAllUsers_follows
    \/ QueryFails
    \/ Finish
    \/ InsertUserDuringList
    \/ InsertFollowDuringList
    \/ DeleteFollowsDuringList
    \/ DeleteUsersDuringList

SpecListUsers == Init /\ [][NextListUsers]_vars


(***************************************************************************)
(* Vocabulary of the properties.                                           *)
(***************************************************************************)
Done == req.pc = "done"
Ok == resp.status = 200
\* no statement of a writer since the (first retained) request began
Unchanged == ~dirty
Absent(id) == id \notin Ids(users)
PostIdsOf(list) == {list[k].id : k \in 1..Len(list)}

\* the finished request is the page after the retained one, same listing
NextPage ==
    /\ Done /\ Ok
    /\ prev.req.op \in Paged /\ prev.resp.status = 200
    /\ req.op = prev.req.op /\ req.id = prev.req.id
    /\ req.limitNum = prev.req.limitNum
    /\ req.pageNum = prev.req.pageNum + 1

\* the finished request is the profile of a user, after a retained listing
ProfileAfterList ==
    /\ Done /\ Ok /\ req.op = "GetUser"
    /\ prev.req.op = "ListUsers" /\ prev.resp.status = 200

\* C1: in every result of ListUsers, for all users u and v of the result,
\* u.followed_by contains v.id iff v.follows contains u.id.
C1_EdgeSymmetry ==
    (Done /\ Ok /\ req.op = "ListUsers") =>
        \A i, j \in 1..Len(resp.users) :
            BagIn(resp.users[j].id, resp.users[i].followed_by)
                <=> BagIn(resp.users[i].id, resp.users[j].follows)

C1_Witness ==
    /\ Done /\ Ok /\ req.op = "ListUsers"
    /\ \E i, j \in 1..Len(resp.users) :
        /\ BagIn(resp.users[j].id, resp.users[i].followed_by)
        /\ ~BagIn(resp.users[i].id, resp.users[j].followed_by)

\* C2: a page of GetUserPosts / GetUserFeed with limit L has at most L
\* posts, and on an unchanged store a full page p shares no post id with
\* page p+1 of the same user and limit.
C2_BoundedAndDisjoint ==
    /\ (Done /\ Ok /\ req.op \in Paged) => Len(resp.posts) <= req.limitNum
    /\ (NextPage /\ Unchanged /\ Len(prev.resp.posts) = req.limitNum) =>
            PostIdsOf(prev.resp.posts) \cap PostIdsOf(resp.posts) = {}

\* C3: posted_at is non-increasing along every returned page, and on an
\* unchanged store the first post of page p+1 is not newer than the last
\* post of page p.
C3_Descending ==
    /\ (Done /\ Ok /\ req.op \in Paged) =>
            \A k \in 1..(Len(resp.posts) - 1) :
                getTime(resp.posts[k + 1].posted_at) <= getTime(resp.posts[k].posted_at)
    /\ (NextPage /\ Unchanged /\ resp.posts # <<>> /\ prev.resp.posts # <<>>) =>
            getTime(resp.posts[1].posted_at)
                <= getTime(prev.resp.posts[Len(prev.resp.posts)].posted_at)

C3_Witness ==
    /\ NextPage /\ Unchanged
    /\ Len(prev.resp.posts) > 1 /\ Len(resp.posts) > 1
    /\ getTime(resp.posts[1].posted_at)
          < getTime(prev.resp.posts[Len(prev.resp.posts)].posted_at)

\* C4: on a store unchanged during the request, every post of
\* GetUserFeed(u) has an author_id that is in u.follows (as the store holds
\* it and as the request's own user lookup read it) and that is not u.
C4_FeedAuthorsFollowed ==
    (Done /\ Ok /\ req.op = "GetUserFeed" /\ Unchanged) =>
        \A k \in 1..Len(resp.posts) :
            /\ FollowRow(req.id, resp.posts[k].author_id) \in follows
            /\ [followed_id |-> resp.posts[k].author_id] \in req.followRows
            /\ resp.posts[k].author_id # req.id

C4_Witness ==
    /\ Done /\ Ok /\ req.op = "GetUserFeed" /\ Unchanged
    /\ resp.posts # <<>>
    /\ \E p \in posts : p.author_id = req.id
    /\ \E p \in posts : /\ p.author_id # req.id
                        /\ FollowRow(req.id, p.author_id) \notin follows

\* C5: GetUserFeed of an existing user without outgoing follow edge
\* answers the empty list for every valid page and limit, whatever posts
\* the store holds.
C5_NoFollowsEmptyFeed ==
    (/\ Done /\ req.op = "GetUserFeed" /\ Unchanged /\ ~req.failed
     /\ ~Absent(req.id)
     /\ ~InvalidPagination(req.pageNum, req.limitNum)
     /\ \A f \in follows : f.follower_id # req.id)
        => (Ok /\ resp.kind = "posts" /\ resp.posts = <<>>)

C5_Witness ==
    /\ Done /\ Ok /\ req.op = "GetUserFeed" /\ Unchanged
    /\ \A f \in follows : f.follower_id # req.id
    /\ posts # {}
    /\ resp.posts = <<>>


\* C6 (as stated): an id absent from the store yields NotFound from GetUser,
\* GetUserPosts and GetUserFeed for every page and limit, existence being
\* checked before pagination is validated.
C6_NotFoundForEveryPage ==
    (/\ Done /\ Unchanged /\ ~req.failed /\ Absent(req.id)
     /\ req.op \in {"GetUser"} \cup Paged)
        => (resp.status = 404 /\ resp.kind = "error")

\* C6 (amended): when the store stays unchanged and its round-trips succeed,
\* an absent id yields NotFound from GetUser; passed to GetUserPosts or
\* GetUserFeed it yields NotFound, not an empty list, for every page and
\* limit that pass the pagination check and InvalidPagination for the
\* others, pagination being validated before existence is checked.
C6_NotFoundAfterValidation ==
    (/\ Done /\ Unchanged /\ ~req.failed /\ Absent(req.id)
     /\ req.op \in {"GetUser"} \cup Paged)
        => /\ resp.kind = "error" /\ resp.posts = <<>> /\ resp.users = <<>>
           /\ resp.status =
                 IF req.op \in Paged /\ InvalidPagination(req.pageNum, req.limitNum)
                 THEN 400 ELSE 404

C6_Witness ==
    /\ Done /\ Unchanged /\ ~req.failed /\ Absent(req.id)
    /\ req.op \in Paged
    /\ resp.status = 404
    /\ \E p \in posts : TRUE

\* C7: a GetUserPosts / GetUserFeed request whose page is less than 1, or
\* whose limit is less than 1 or greater than 100, fails with
\* InvalidPagination and returns no posts; a request with page >= 1 and
\* 1 <= limit <= 100 is not rejected as InvalidPagination.
C7_PaginationValidation ==
    (Done /\ req.op \in Paged) =>
        /\ (\/ req.page # Unset /\ req.page[1] < 1
            \/ req.limit # Unset /\ req.limit[1] < 1
            \/ req.limit # Unset /\ req.limit[1] > MaxLimit)
                => (resp.status = 400 /\ resp.posts = <<>>)
        /\ (/\ req.page # Unset /\ req.page[1] >= 1
            /\ req.limit # Unset /\ req.limit[1] >= 1 /\ req.limit[1] <= MaxLimit)
                => resp.status # 400

\* the descending timeline a listing pages through
Timeline(op, id) ==
    IF op = "GetUserPosts"
    THEN {p \in posts : p.author_id = id}
    ELSE {p \in posts : FollowRow(id, p.author_id) \in follows}

\* C8: for valid page and limit, on an unchanged store, the returned page is
\* exactly the rows at positions (page-1)*limit .. (page-1)*limit + limit - 1
\* (counted from 0) of a full descending timeline, page being 1 and limit
\* 20 when the parameter is unset.
C8_PageIsSlice ==
    (/\ Done /\ Ok /\ req.op \in Paged /\ Unchanged
     /\ req.page = Unset \/ req.page[1] >= 1
     /\ req.limit = Unset \/ (req.limit[1] >= 1 /\ req.limit[1] <= MaxLimit))
        => LET page == IF req.page = Unset THEN 1 ELSE req.page[1]
               limit == IF req.limit = Unset THEN 20 ELSE req.limit[1]
               first == (page - 1) * limit
           IN \E o \in DescOrders(Timeline(req.op, req.id)) :
                /\ Len(resp.posts) =
                      Cardinality({k \in 1..Len(o) : k - 1 >= first /\ k - 1 < first + limit})
                /\ \A k \in 1..Len(resp.posts) : resp.posts[k].id = o[first + k].id

C8_Witness ==
    /\ Done /\ Ok /\ req.op \in Paged /\ Unchanged
    /\ req.page # Unset /\ req.page[1] >= 2
    /\ req.limit # Unset /\ req.limit[1] >= 2
    /\ Len(resp.posts) = req.limit[1]

\* C9: on an unchanged store, GetUser(id).follows is the same multiset of
\* ids as the follows list of that user in ListUsers(), likewise
\* followed_by; id, username and email agree too.
C9_ProfileMatchesListing ==
    (ProfileAfterList /\ Unchanged) =>
        \E k \in 1..Len(prev.resp.users) :
            LET listed == prev.resp.users[k]
                user == resp.users[1]
            IN /\ listed.id = req.id /\ user.id = req.id
               /\ user.username = listed.username
               /\ user.email = listed.email
               /\ user.follows = listed.follows
               /\ user.followed_by = listed.followed_by

C9_Witness ==
    /\ ProfileAfterList /\ Unchanged
    /\ resp.users[1].follows # EmptyBag
    /\ resp.users[1].followed_by # EmptyBag
    /\ resp.users[1].follows # resp.users[1].followed_by

\* C10: if a store round-trip of a request fails, the request fails as a
\* whole: the failure reaches the caller, the failed statement is the last
\* one the request issues (no retry), and no list of users or posts, in
\* particular no partially enriched page, is returned.
C10_FailureIsFatal ==
    req.failed =>
        /\ Done
        /\ resp.status = 500 /\ resp.kind = "error"
        /\ resp.users = <<>> /\ resp.posts = <<>>

C10_Witness ==
    /\ Done /\ req.failed
    /\ req.op \in Paged
    /\ req.trips = 6

\* C11: ListUsers returns its users in strictly ascending username order
\* (so none twice), and on a store unchanged during the request the users
\* returned are exactly the users of the store, each with its own columns.
C11_AllUsersByUsername ==
    (Done /\ Ok /\ req.op = "ListUsers") =>
        /\ \A k \in 1..(Len(resp.users) - 1) :
              Rank(resp.users[k].username) < Rank(resp.users[k + 1].username)
        /\ Unchanged =>
              /\ Len(resp.users) = Cardinality(users)
              /\ {UserRow(resp.users[k].id, resp.users[k].full_name,
                          resp.users[k].username, resp.users[k].email) :
                      k \in 1..Len(resp.users)} = users

C11_Witness ==
    /\ Done /\ Ok /\ req.op = "ListUsers" /\ Unchanged
    /\ Len(resp.users) = 5
    /\ resp.users[5].id = NewUser.id

\* the page statement of getUserPosts returns in this step
PostsStatement ==
    /\ req.op = "GetUserPosts" /\ req.pc = "posts"
    /\ req'.pc # "posts" /\ ~req'.failed

\* C12: every row the statement of getUserPosts(target) returns, and every
\* post of the response built from it, has author_id = target; and when no
\* user has that id at the statement, the query does not fail: the page is
\* empty and the request is answered 200 with the empty list.
C12_PostsOfTargetOnly ==
    /\ []((Done /\ Ok /\ req.op = "GetUserPosts") =>
            \A k \in 1..Len(resp.posts) : resp.posts[k].author_id = req.id)
    /\ [][PostsStatement =>
            /\ \A k \in 1..Len(req'.postRows) :
                  req'.postRows[k].author_id = req.id
            /\ Absent(req.id) =>
                  /\ req'.postRows = <<>> /\ req'.pc = "done"
                  /\ resp'.status = 200 /\ resp'.kind = "posts"
                  /\ resp'.posts = <<>>]_vars

\* the user was deleted between the route's lookup and the page statement
C12_Witness ==
    /\ Done /\ Ok /\ req.op = "GetUserPosts"
    /\ req.id = "alice" /\ req.pageNum = 1 /\ Absent(req.id)
    /\ req.matched = {} /\ resp.posts = <<>>

\* the users the store says id follows, and the likers of a post
FollowedBy(id) == {f.followed_id : f \in {g \in follows : g.follower_id = id}}
LikersOf(postId) == {l.user_id : l \in {m \in likes : m.post_id = postId}}

\* C13: with four users of which A follows exactly two, B and C, on an
\* unchanged store GetUserFeed(A, page 1, limit 20) returns exactly the posts
\* authored by B or C (at most 20 of them), each once, newest first, and
\* the liked_by of each holds every user with a like edge on that post, once.
C13_FeedScenario ==
    (/\ Done /\ Ok /\ req.op = "GetUserFeed" /\ Unchanged
     /\ req.pageNum = 1 /\ req.limitNum = 20
     /\ Cardinality(users) = 4
     /\ Cardinality(FollowedBy(req.id)) = 2
     /\ Cardinality({p \in posts : p.author_id \in FollowedBy(req.id)}) <= 20)
        => /\ PostIdsOf(resp.posts) =
                 Ids({p \in posts : p.author_id \in FollowedBy(req.id)})
           /\ Len(resp.posts) =
                 Cardinality({p \in posts : p.author_id \in FollowedBy(req.id)})
           /\ \A k \in 1..(Len(resp.posts) - 1) :
                 getTime(resp.posts[k + 1].posted_at) <= getTime(resp.posts[k].posted_at)
           /\ \A k \in 1..Len(resp.posts) :
                 /\ BagToSet(resp.posts[k].liked_by) = LikersOf(resp.posts[k].id)
                 /\ \A u \in LikersOf(resp.posts[k].id) :
                       CopiesIn(u, resp.posts[k].liked_by) = 1

\* the fixture of seed(): alice follows bob and charlie, who wrote 4 posts
C13_Witness ==
    /\ Done /\ Ok /\ req.op = "GetUserFeed" /\ Unchanged
    /\ req.id = "alice" /\ req.page = Unset /\ req.limit = Unset
    /\ users = SeedUsers /\ FollowedBy(req.id) = {"bob", "charlie"}
    /\ Len(resp.posts) = 4
    /\ \E k \in 1..Len(resp.posts) :
          /\ resp.posts[k].author_id = "bob"
          /\ BagToSet(resp.posts[k].liked_by) = {"alice", "diana"}

\* C14: enrichPosts preserves order: the posts it returns are as many as
\* the rows it was given, and the i-th has the id, author_id, text and
\* replying_to of the i-th row (whatever a writer does meanwhile).
C14_EnrichKeepsOrder ==
    (Done /\ Ok /\ req.op \in Paged) =>
        /\ Len(resp.posts) = Len(req.postRows)
        /\ \A k \in 1..Len(resp.posts) :
              /\ resp.posts[k].id = req.postRows[k].id
              /\ resp.posts[k].author_id = req.postRows[k].author_id
              /\ resp.posts[k].text = req.postRows[k].text
              /\ resp.posts[k].replying_to = req.postRows[k].replying_to

C14_Witness ==
    /\ Done /\ Ok /\ req.op \in Paged
    /\ Len(resp.posts) >= 3
    /\ resp.posts[1].author_id # resp.posts[2].author_id
    /\ \E k \in 1..Len(resp.posts) : resp.posts[k].replying_to # NULL

\* the posts the store holds as replies to a post
RepliesTo(postId) == {q \in posts : q.replying_to = postId}

\* C15: on an unchanged store, for every post p of an enriched page,
\* p.replies holds exactly the ids of the posts whose replying_to is p.id and
\* p.liked_by exactly the ids of the users with a like edge on p.id, each
\* once; no reply id listed under p belongs to another post of the page.
C15_ListsAreExact ==
    (Done /\ Ok /\ req.op \in Paged /\ Unchanged) =>
        \A k \in 1..Len(resp.posts) :
            /\ resp.posts[k].replies =
                  BagOf(RepliesTo(resp.posts[k].id), LAMBDA q : q.id)
            /\ resp.posts[k].liked_by =
                  BagOf({l \in likes : l.post_id = resp.posts[k].id},
                        LAMBDA l : l.user_id)
            /\ \A j \in 1..Len(resp.posts) :
                  j # k => \A q \in RepliesTo(resp.posts[j].id) :
                              ~BagIn(q.id, resp.posts[k].replies)

C15_Witness ==
    /\ Done /\ Ok /\ req.op \in Paged /\ Unchanged
    /\ \E j, k \in 1..Len(resp.posts) :
          /\ j # k
          /\ resp.posts[j].replies # EmptyBag
          /\ resp.posts[j].liked_by # EmptyBag
          /\ resp.posts[k].replies = EmptyBag
          /\ resp.posts[k].liked_by # EmptyBag
          /\ resp.posts[k].liked_by # resp.posts[j].liked_by

\* C16: on an unchanged store, every reply r to a post p of the returned
\* page is listed in p.replies, whichever posts share the page with p and
\* also when r is in no page of the timeline or feed asked for (r's author
\* being another user).
C16_RepliesOutsidePages ==
    (Done /\ Ok /\ req.op \in Paged /\ Unchanged) =>
        \A k \in 1..Len(resp.posts) :
            \A r \in RepliesTo(resp.posts[k].id) :
                /\ BagIn(r.id, resp.posts[k].replies)
                /\ r \notin Timeline(req.op, req.id) =>
                      r.id \notin PostIdsOf(resp.posts)

\* post1 alone on its page, its reply written by a user other than the author
C16_Witness ==
    /\ Done /\ Ok /\ req.op = "GetUserPosts" /\ Unchanged
    /\ Len(resp.posts) = 1
    /\ \E r \in RepliesTo(resp.posts[1].id) :
          /\ r.author_id # req.id
          /\ r \notin Timeline(req.op, req.id)
          /\ BagIn(r.id, resp.posts[1].replies)

\* C17: every user of a ListUsers result has a follows and a followed_by
\* list and every post of a GetUserPosts / GetUserFeed result has a replies and
\* a liked_by list; a list is present and empty when (on an unchanged store)
\* no edge touches the entity on that side.
C17_ListsAlwaysPresent ==
    /\ (Done /\ Ok /\ req.op = "ListUsers") =>
            \A k \in 1..Len(resp.users) :
                /\ {"follows", "followed_by"} \subseteq DOMAIN resp.users[k]
                /\ IsABag(resp.users[k].follows)
                /\ IsABag(resp.users[k].followed_by)
                /\ (Unchanged /\ FollowedBy(resp.users[k].id) = {})
                        => resp.users[k].follows = EmptyBag
                /\ (Unchanged /\ \A f \in follows : f.followed_id # resp.users[k].id)
                        => resp.users[k].followed_by = EmptyBag
    /\ (Done /\ Ok /\ req.op \in Paged) =>
            \A k \in 1..Len(resp.posts) :
                /\ {"replies", "liked_by"} \subseteq DOMAIN resp.posts[k]
                /\ IsABag(resp.posts[k].replies)
                /\ IsABag(resp.posts[k].liked_by)
                /\ (Unchanged /\ RepliesTo(resp.posts[k].id) = {})
                        => resp.posts[k].replies = EmptyBag
                /\ (Unchanged /\ LikersOf(resp.posts[k].id) = {})
                        => resp.posts[k].liked_by = EmptyBag

\* a page with a post that has neither reply nor like, beside one that has
C17_Witness ==
    /\ Done /\ Ok /\ req.op \in Paged /\ Unchanged
    /\ \E j, k \in 1..Len(resp.posts) :
          /\ RepliesTo(resp.posts[k].id) = {} /\ LikersOf(resp.posts[k].id) = {}
          /\ resp.posts[k].replies = EmptyBag /\ resp.posts[k].liked_by = EmptyBag
          /\ resp.posts[j].replies # EmptyBag

\* C18: when the primary fetch returns no rows (no users for ListUsers, an
\* empty page for GetUserPosts / GetUserFeed), the operation returns the
\* empty list and that fetch is the only statement it issues: no
\* relationship query follows.
C18_EmptyShortCircuits ==
    /\ (Done /\ ~req.failed /\ req.op = "ListUsers" /\ req.userRows = <<>>) =>
            /\ Ok /\ resp.kind = "users" /\ resp.users = <<>>
            /\ req.opTrips = 1 /\ req.trips = 1
    /\ (Done /\ Ok /\ req.op \in Paged /\ req.postRows = <<>>) =>
            /\ resp.kind = "posts" /\ resp.posts = <<>>
            /\ req.replyRows = {}
            /\ req.opTrips = 1 /\ req.trips = 4

\* a page past the end of a timeline that has posts
C18_Witness ==
    /\ Done /\ Ok /\ req.op \in Paged
    /\ req.matched # {} /\ req.postRows = <<>>
    /\ resp.posts = <<>> /\ req.opTrips = 1

\* C19 (as stated): every request, GetUserPosts and GetUserFeed included,
\* performs at most 3 store round-trips.
C19_AtMostThreeTrips == req.trips <= 3

\* C19 (amended): every query function issues at most 3 statements
\* (getAllUsers at most 2): one primary fetch, then at most two relationship
\* fetches, a number that does not depend on the rows fetched; a request
\* issues them one at a time; a GetUserPosts / GetUserFeed request performs
\* up to 6 round-trips, the 3 of the route's getUserById and then up to 3 of
\* the page query.
C19_TripsPerOperation ==
    /\ [](/\ req.opTrips <= 3
          /\ req.op = "ListUsers" => req.trips <= 2
          /\ req.op = "GetUser" => req.trips <= 3
          /\ req.op \in Paged => req.trips <= 6
          /\ (Done /\ Ok) =>
                req.trips = CASE req.op = "ListUsers" ->
                                    IF req.userRows = <<>> THEN 1 ELSE 2
                              [] req.op = "GetUser" -> 3
                              [] OTHER -> IF req.postRows = <<>> THEN 4 ELSE 6)
    /\ [][\/ req'.trips = req.trips
          \/ req'.trips = req.trips + 1 /\ req'.pc # req.pc
          \/ req'.trips = 0]_vars

C19_Witness ==
    /\ Done /\ Ok /\ req.op \in Paged
    /\ Len(resp.posts) > 3
    /\ req.opTrips = 3 /\ req.trips = 6

\* the finished request fetched page p+1 after a full page p was returned
AfterFullPage == NextPage /\ Len(prev.resp.posts) = req.limitNum

\* between the two page statements one post, newer than the last post of
\* page p, was added to the rows selected from, and none was removed
InsertedBetween ==
    /\ prev.req.matched \subseteq req.matched
    /\ \E n \in req.matched :
          /\ req.matched = prev.req.matched \cup {n}
          /\ n \notin prev.req.matched
          /\ n.posted_at >
                getTime(prev.resp.posts[Len(prev.resp.posts)].posted_at)

\* between the two page statements every row selected from was removed
DeletedBetween == prev.req.matched # {} /\ req.matched = {}

\* C20: offset pagination drifts under writes.  When a newer post of the
\* same author (or of a followed author) is inserted between the fetch of a
\* full page p and the fetch of page p+1, page p+1 starts at the posted_at
\* page p ended with, and the last post of page p comes again as the first
\* of page p+1 (a phantom) when no other post of the timeline has its
\* posted_at.  When the posts are deleted in between, page p+1 is empty and
\* the posts that were after page p are in neither page (a skip).
C20_OffsetDrift ==
    /\ (AfterFullPage /\ InsertedBetween) =>
            LET last == prev.resp.posts[Len(prev.resp.posts)]
            IN /\ resp.posts # <<>>
               /\ resp.posts[1].posted_at = last.posted_at
               /\ (\A m \in prev.req.matched :
                      m.posted_at = getTime(last.posted_at) => m.id = last.id)
                    => resp.posts[1].id = last.id
    /\ (AfterFullPage /\ DeletedBetween) =>
            /\ resp.posts = <<>>
            /\ \A m \in prev.req.matched :
                  m.id \notin PostIdsOf(prev.resp.posts)
                      => m.id \notin PostIdsOf(resp.posts)

\* a phantom in a timeline without equal posted_at: alice's posts, limit 1
C20_Witness ==
    /\ AfterFullPage /\ InsertedBetween
    /\ \A m, n \in prev.req.matched : m.posted_at = n.posted_at => m = n
    /\ Cardinality(prev.req.matched) > 1
    /\ PostIdsOf(prev.resp.posts) \cap PostIdsOf(resp.posts) # {}

\* the finished request is the retained one sent once more
Repeat ==
    /\ Done /\ Ok /\ prev.resp.status = 200
    /\ req.op = prev.req.op /\ req.id = prev.req.id
    /\ req.page = prev.req.page /\ req.limit = prev.req.limit

\* C21: the operations leave users, posts, follow edges and like edges as
\* they are (while no writer statement has run the store is the fixture it
\* started as, whatever requests were served), and two identical requests
\* on an unchanged store return the same result.
C21_PureAndRepeatable ==
    /\ writes = 0 =>
            /\ users = SeedUsers /\ posts = SeedPosts
            /\ follows = SeedFollows /\ likes = SeedLikes
    /\ (Repeat /\ Unchanged) => resp = prev.resp

\* ids of the users of the response
ResultIds == {resp.users[k].id : k \in 1..Len(resp.users)}
\* ids a user of the response lists as followed or following
ListedIds(u) == BagToSet(u.follows) \cup BagToSet(u.followed_by)

\* C22 (as stated): in every ListUsers result, every id listed in a user's
\* follows or followed_by is the id of a user of that same result, also
\* when a writer inserts users and follow edges between the two statements.
C22_ListedIdsInResult ==
    (Done /\ Ok /\ req.op = "ListUsers") =>
        \A k \in 1..Len(resp.users) : ListedIds(resp.users[k]) \subseteq ResultIds

\* C22 (amended): on a store unchanged during the request every listed id
\* is the id of a user of the same result; under a concurrent writer a
\* listed id outside the result is the id of a user the writer inserted
\* after the user fetch, taken from a follow edge the second statement read
\* whose other end is the listing user.
C22_ListedIdsInResultOrInserted ==
    (Done /\ Ok /\ req.op = "ListUsers") =>
        /\ Unchanged =>
                \A k \in 1..Len(resp.users) :
                    ListedIds(resp.users[k]) \subseteq ResultIds
        /\ \A k \in 1..Len(resp.users) :
                \A x \in ListedIds(resp.users[k]) \ ResultIds :
                    /\ ~Unchanged
                    /\ x = NewUser.id
                    /\ x \notin {req.userRows[j].id : j \in 1..Len(req.userRows)}
                    /\ \/ FollowRow(resp.users[k].id, x) \in req.followRows
                       \/ FollowRow(x, resp.users[k].id) \in req.followRows

\* a user and a follow edge to it were inserted between the two statements
C22_Witness ==
    /\ Done /\ Ok /\ req.op = "ListUsers"
    /\ NewUser \in users
    /\ NewUser.id \notin ResultIds
    /\ \E k \in 1..Len(resp.users) : NewUser.id \in ListedIds(resp.users[k])

\* ids the store holds as followed by id, and as following id
Outgoing(id) == {x \in Ids(users) : FollowRow(id, x) \in follows}
Incoming(id) == {x \in Ids(users) : FollowRow(x, id) \in follows}

\* the finished request is a GetUser sent after the retained GetUser
AfterGetUser ==
    /\ Done /\ Ok /\ req.op = "GetUser"
    /\ prev.resp.status = 200 /\ prev.req.op = "GetUser"

\* v in GetUser(u).follows implies u in GetUser(v).followed_by, GetUser(u)
\* being the retained exchange and GetUser(v) the finished one
Symmetric ==
    BagIn(req.id, prev.resp.users[1].follows) =>
        BagIn(prev.req.id, resp.users[1].followed_by)

\* C23: getUserById reads the outgoing and the incoming follow edges in two
\* statements after the user row: the follows of a profile are the store's
\* outgoing edges at the second statement, its followed_by the store's
\* incoming edges at the third, whatever a writer did in between.  Across
\* two GetUser calls, v in GetUser(u).follows implies u in
\* GetUser(v).followed_by on an unchanged store, and under writes whenever
\* the edge from u to v is in the store at the third statement of GetUser(v).
C23_ListsPerStatement ==
    /\ []((AfterGetUser /\ Unchanged) => Symmetric)
    /\ [][(req.pc = "follows" /\ req'.pc = "followedBy") =>
              {r.followed_id : r \in req'.followRows} = Outgoing(req.id)]_vars
    /\ [][(/\ req.op = "GetUser" /\ req.pc = "followedBy"
           /\ req'.pc = "done" /\ resp'.status = 200) =>
              /\ BagToSet(resp'.users[1].followed_by) = Incoming(req.id)
              /\ BagToSet(resp'.users[1].follows)
                    = {r.followed_id : r \in req.followRows}
              /\ (/\ prev.resp.status = 200 /\ prev.req.op = "GetUser"
                  /\ BagIn(req.id, prev.resp.users[1].follows)
                  /\ FollowRow(prev.req.id, req.id) \in follows) =>
                        BagIn(prev.req.id, resp'.users[1].followed_by)]_vars

\* GetUser(u) listed v, the edge was deleted, and GetUser(v) does not list u
C23_Witness ==
    /\ AfterGetUser /\ ~Unchanged
    /\ req.id # prev.req.id
    /\ BagIn(req.id, prev.resp.users[1].follows)
    /\ ~BagIn(prev.req.id, resp.users[1].followed_by)
    /\ FollowRow(prev.req.id, req.id) \notin follows
====
